---- MODULE Spec2Model ----
(***************************************************************************)
(* ANC Care Gap Predictor (src/app.py): a Streamlit script.  Every user    *)
(* interaction re-executes the script from the top: the model artifacts    *)
(* are loaded (or trained and saved), the sidebar widgets are read, and,   *)
(* when the run was caused by the Predict button, one prediction is        *)
(* scored and rendered.                                                    *)
(*                                                                         *)
(* Probabilities are fixed-point numbers in thousandths (700 is 0.7).      *)
(* The fitted scikit-learn objects are opaque library values; each is      *)
(* represented by where the running script got it from and by the fit it   *)
(* holds, and what it computes by a fixed deterministic function of that   *)
(* fit (Transform, PredictProba).                                          *)
(***************************************************************************)
EXTENDS Integers, Sequences, FiniteSets, TLC

VARIABLES
    disk_model,     \* content of best_model.joblib
    disk_pre,       \* content of preprocessor.joblib
    wm_ok,          \* wm.sav can be read and yields a trainable data set
    cache,          \* st.cache_resource entry of load_and_train_model
    pc,             \* position of the running script
    model,          \* module global `model`
    preprocessor,   \* module global `preprocessor`
    form,           \* the sidebar widgets' values (session state)
    button,         \* this run was triggered by "Predict Care Gap Risk"
    input_data,     \* the handler's input_data dict
    input_df,       \* the record predict_risk hands to the preprocessor
    risk_score,     \* the handler's risk_score
    gauge,          \* value shown by the gauge
    shown,          \* the interpretation blocks rendered in this run
    factors,        \* the Key Risk Factors list rendered in this run
    load_failed,    \* which joblib.load raised in this run
    calls,          \* predict_risk calls made in this run
    error,          \* an uncaught exception stopped this run
    ref,            \* history: one earlier rendered prediction
    others,         \* history: a different request was rendered since ref
    t_pc,           \* position inside load_and_train_model
    columns,        \* df.columns of the survey file
    df,             \* the survey rows
    components,     \* create_care_gap_score's component list
    X,              \* indices of the rows of X
    y,              \* indices of the rows of y
    fitted          \* outcome of fit_transform / model.fit

appvars == <<disk_model, disk_pre, wm_ok, cache, pc, model, preprocessor, form,
             button, input_data, input_df, risk_score, gauge, shown, factors,
             load_failed, calls, error, ref, others>>
trainvars == <<t_pc, columns, df, components, X, y, fitted>>
vars == <<appvars, trainvars>>

Range(s) == {s[i] : i \in DOMAIN s}

(***************************************************************************)
(* Widgets                                                                 *)
(***************************************************************************)
MinAge == 15
MaxAge == 49
DefaultAge == 25
MinParity == 0
MaxParity == 15
DefaultParity == 1

YesNo == {"No", "Yes"}
EducationLevels == {"No formal education", "Primary", "Secondary", "Higher"}
MaritalStatuses == {"Married", "Living with partner", "Not in union"}

Forms ==
    [age : MinAge..MaxAge, parity : MinParity..MaxParity, late_initiator : YesNo,
     education : EducationLevels, insurance : YesNo, ever_birth : YesNo,
     marital_status : MaritalStatuses]

\* The widgets' default values: a new session starts from these.
DefaultForm ==
    [age |-> DefaultAge, parity |-> DefaultParity, late_initiator |-> "No",
     education |-> "No formal education", insurance |-> "No", ever_birth |-> "No",
     marital_status |-> "Married"]

\* The form selections the user moves between in the full script model.
TeenForm ==
    [age |-> 17, parity |-> 5, late_initiator |-> "Yes",
     education |-> "No formal education", insurance |-> "No", ever_birth |-> "No",
     marital_status |-> "Not in union"]
InsuredForm ==
    [age |-> 30, parity |-> 2, late_initiator |-> "No",
     education |-> "Higher", insurance |-> "Yes", ever_birth |-> "Yes",
     marital_status |-> "Living with partner"]
Profiles == {DefaultForm, TeenForm, InsuredForm}

(***************************************************************************)
(* The mapping tables and the handler's input_data                         *)
(***************************************************************************)
education_mapping ==
    [e \in EducationLevels |->
        CASE e = "No formal education" -> 0
          [] e = "Primary" -> 1
          [] e = "Secondary" -> 3
          [] e = "Higher" -> 8]

marital_mapping ==
    [m \in MaritalStatuses |->
        CASE m = "Married" -> 1
          [] m = "Living with partner" -> 2
          [] m = "Not in union" -> 3]

InputData(f) ==
    [age |-> f.age, parity |-> f.parity, late_initiator |-> f.late_initiator,
     education |-> education_mapping[f.education], insurance |-> f.insurance,
     ever_birth |-> f.ever_birth, marital_status |-> marital_mapping[f.marital_status]]

NoInput ==
    [age |-> 0, parity |-> 0, late_initiator |-> "", education |-> 0,
     insurance |-> "", ever_birth |-> "", marital_status |-> 0]

NoFrame ==
    [WB4 |-> 0, CM11 |-> 0, LateInitiator |-> 0, WB6A |-> 0, WB18 |-> 0,
     CM1 |-> 0, MA1 |-> 0]

(***************************************************************************)
(* Artifacts                                                               *)
(***************************************************************************)
\* from: "none" (unset), "file" (on disk), "disk" (joblib.load's result),
\* "trained" (load_and_train_model's result).  fit: the data the object was
\* fitted on.
NoArtifact == [from |-> "none", fit |-> "none"]
ShippedFile == [from |-> "file", fit |-> "shipped"]
Loaded(file) == [from |-> "disk", fit |-> file.fit]
Dumped(obj) == [from |-> "file", fit |-> obj.fit]
NoPair == [model |-> NoArtifact, preprocessor |-> NoArtifact]
\* What load_and_train_model returns: model and preprocessor fitted together.
TrainedPair ==
    [model |-> [from |-> "trained", fit |-> "wm.sav"],
     preprocessor |-> [from |-> "trained", fit |-> "wm.sav"]]

(***************************************************************************)
(* predict_risk                                                            *)
(***************************************************************************)
EncodeFrameElseZero(d) ==
    [WB4 |-> d.age,
     CM11 |-> d.parity,
     LateInitiator |-> IF d.late_initiator = "Yes" THEN 1 ELSE 0,
     WB6A |-> d.education,
     WB18 |-> IF d.insurance = "Yes" THEN 1 ELSE 0,
     CM1 |-> IF d.ever_birth = "Yes" THEN 1 ELSE 0,
     MA1 |-> d.marital_status]

\* The one-row DataFrame built from input_dict.
EncodeFrame(d) ==
    [WB4 |-> d.age,
     CM11 |-> d.parity,
     LateInitiator |-> IF d.late_initiator = "Yes" THEN 1 ELSE 0,
     WB6A |-> d.education,
     WB18 |-> IF d.insurance = "Yes" THEN 1 ELSE 2,
     CM1 |-> IF d.ever_birth = "Yes" THEN 1 ELSE 2,
     MA1 |-> d.marital_status]

\* The categories the fitted OneHotEncoder knows, per categorical feature.
Categories ==
    [WB6A |-> {0, 1, 3, 8}, WB18 |-> {1, 2}, CM1 |-> {1, 2}, MA1 |-> {1, 2, 3}]

\* OneHotEncoder(handle_unknown='ignore'): the set of columns set to 1; an
\* unknown category sets none.
OneHot(feature, code) == IF code \in Categories[feature] THEN {code} ELSE {}

\* StandardScaler: position relative to the fitted centre (values doubled so
\* that the centres are integers).
Scale(x, twiceMean) == 2 * x - twiceMean

\* preprocessor.transform(input_df): a pure function of the fitted
\* preprocessor and the frame.
Transform(p, frame) ==
    [WB4 |-> Scale(frame.WB4, 56),
     CM11 |-> Scale(frame.CM11, 5),
     LateInitiator |-> Scale(frame.LateInitiator, 1),
     WB6A |-> OneHot("WB6A", frame.WB6A),
     WB18 |-> OneHot("WB18", frame.WB18),
     CM1 |-> OneHot("CM1", frame.CM1),
     MA1 |-> OneHot("MA1", frame.MA1)]

Clamp(lo, x, hi) == IF x < lo THEN lo ELSE IF x > hi THEN hi ELSE x

\* model.predict_proba(processed_input)[0][1]: the fitted ensemble is a sum of
\* threshold tests on the processed features, squashed into (0, 1).
PredictProba(m, z) ==
    Clamp(1,
          (IF m.fit = "shipped" THEN 140 ELSE 100)
          + (IF z.LateInitiator > 0 THEN 250 ELSE 0)
          + (IF 0 \in z.WB6A THEN 150 ELSE 0)
          + (IF 1 \in z.WB6A THEN 100 ELSE 0)
          - (IF 8 \in z.WB6A THEN 50 ELSE 0)
          + (IF 2 \in z.WB18 THEN 100 ELSE 0)
          + (IF 2 \in z.CM1 THEN 20 ELSE 0)
          + (IF 2 \in z.MA1 THEN 30 ELSE 0)
          + (IF 3 \in z.MA1 THEN 100 ELSE 0)
          + (IF z.CM11 > 1 THEN 80 ELSE 0)
          + (IF z.WB4 < -20 THEN 60 ELSE 0),
          999)

PredictRiskRefit(m, p, d) ==
    [score |-> PredictProba(m, Transform(p, EncodeFrame(d))),
     input_df |-> EncodeFrame(d),
     model |-> m,
     preprocessor |-> [from |-> "trained", fit |-> "input_df"],
     input_dict |-> d]

PredictRiskFallback(m, p, d) ==
    [score |-> IF disk_model = NoArtifact
                 THEN 500
                 ELSE PredictProba(m, Transform(p, EncodeFrame(d))),
     input_df |-> EncodeFrame(d),
     model |-> m,
     preprocessor |-> p,
     input_dict |-> d]

\* predict_risk(input_dict) with the globals model = m, preprocessor = p: the
\* value returned, the frame handed to the preprocessor, and the objects the
\* call read as it leaves them.
PredictRisk(m, p, d) ==
    [score |-> PredictProba(m, Transform(p, EncodeFrame(d))),
     input_df |-> EncodeFrame(d),
     model |-> m,
     preprocessor |-> p,
     input_dict |-> d]

(***************************************************************************)
(* Risk interpretation and key risk factors                                *)
(***************************************************************************)
NoScore == -1
HighThreshold == 700
MediumThreshold == 400
HighParity == 3

HighBlock ==
    [call |-> "error", tier |-> "HIGH RISK",
     recommendations |-> <<"Schedule additional ANC visits",
                           "Provide transportation support if needed",
                           "Assign community health worker for follow-up",
                           "Consider home visits or mobile clinic services">>]
MediumBlock ==
    [call |-> "warning", tier |-> "MEDIUM RISK",
     recommendations |-> <<"Ensure complete ANC package",
                           "Provide health education on importance of care",
                           "Schedule follow-up appointment",
                           "Address any specific barriers to care">>]
LowBlock ==
    [call |-> "success", tier |-> "LOW RISK",
     recommendations |-> <<"Continue routine ANC care",
                           "Reinforce importance of completing all visits",
                           "Monitor for any changes in circumstances">>]

InterpretationInclusive(s) ==
    IF s >= HighThreshold THEN <<HighBlock>>
    ELSE IF s >= MediumThreshold THEN <<MediumBlock>>
    ELSE <<LowBlock>>

\* The if / elif / else on risk_score: the blocks it renders, in order.
Interpretation(s) ==
    IF s > HighThreshold THEN <<HighBlock>>
    ELSE IF s > MediumThreshold THEN <<MediumBlock>>
    ELSE <<LowBlock>>

LateFactor == "Late ANC initiation (first visit after 13 weeks)"
EducationFactor == "Lower education level"
InsuranceFactor == "No health insurance"
ParityFactor(n) == "High parity (" \o ToString(n) \o " births)"
UnionFactor == "Not in a union"

KeyRiskFactorsNoUnion(d) ==
    (IF d.late_initiator = "Yes" THEN <<LateFactor>> ELSE <<>>)
    \o (IF d.education \in {0, 1} THEN <<EducationFactor>> ELSE <<>>)
    \o (IF d.insurance = "No" THEN <<InsuranceFactor>> ELSE <<>>)
    \o (IF d.parity > HighParity THEN <<ParityFactor(d.parity)>> ELSE <<>>)

\* The factors list the handler builds from input_data, in append order.
KeyRiskFactors(d) ==
    (IF d.late_initiator = "Yes" THEN <<LateFactor>> ELSE <<>>)
    \o (IF d.education \in {0, 1} THEN <<EducationFactor>> ELSE <<>>)
    \o (IF d.insurance = "No" THEN <<InsuranceFactor>> ELSE <<>>)
    \o (IF d.parity > HighParity THEN <<ParityFactor(d.parity)>> ELSE <<>>)
    \o (IF d.marital_status = 3 THEN <<UnionFactor>> ELSE <<>>)

\* st.info("No significant risk factors identified") is shown iff the list is empty.
NoFactorsInfo(fs) == fs = <<>>

(***************************************************************************)
(* The script run                                                          *)
(***************************************************************************)
NoRef ==
    [model |-> NoArtifact, preprocessor |-> NoArtifact, form |-> DefaultForm,
     score |-> NoScore, shown |-> <<>>, factors |-> <<>>]

\* The prediction a finished run displays.
Rendered(m, p, f, s, sh, fs) ==
    [model |-> m, preprocessor |-> p, form |-> f, score |-> s, shown |-> sh,
     factors |-> fs]

\* A run begins: the script's namespace is fresh, nothing is rendered yet.
StartRun(b, f) ==
    /\ pc' = "load_model"
    /\ button' = b
    /\ form' = f
    /\ model' = NoArtifact
    /\ preprocessor' = NoArtifact
    /\ input_data' = NoInput
    /\ input_df' = NoFrame
    /\ risk_score' = NoScore
    /\ gauge' = NoScore
    /\ shown' = <<>>
    /\ factors' = <<>>
    /\ load_failed' = "no"
    /\ calls' = 0
    /\ error' = FALSE

\* try: model = joblib.load('best_model.joblib')
LoadModel ==
    /\ pc = "load_model"
    /\ IF disk_model # NoArtifact
         THEN /\ model' = Loaded(disk_model)
              /\ pc' = "load_pre"
              /\ UNCHANGED load_failed
         ELSE /\ load_failed' = "model"
              /\ pc' = "train"
              /\ UNCHANGED model
    /\ UNCHANGED <<disk_model, disk_pre, wm_ok, cache, preprocessor, form, button,
                   input_data, input_df, risk_score, gauge, shown, factors, calls,
                   error, ref, others, trainvars>>

\* preprocessor = joblib.load('preprocessor.joblib'); on failure the except
\* branch is entered with `model` already bound to the loaded model.
LoadPreprocessor ==
    /\ pc = "load_pre"
    /\ IF disk_pre # NoArtifact
         THEN /\ preprocessor' = Loaded(disk_pre)
              /\ pc' = "widgets"
              /\ UNCHANGED load_failed
         ELSE /\ load_failed' = "preprocessor"
              /\ pc' = "train"
              /\ UNCHANGED preprocessor
    /\ UNCHANGED <<disk_model, disk_pre, wm_ok, cache, model, form, button,
                   input_data, input_df, risk_score, gauge, shown, factors, calls,
                   error, ref, others, trainvars>>

TrainKeepLoaded ==
    /\ pc = "train"
    /\ IF cache # NoPair \/ wm_ok
         THEN /\ cache' = TrainedPair
              /\ model' = IF model # NoArtifact THEN model ELSE TrainedPair.model
              /\ preprocessor' = TrainedPair.preprocessor
              /\ pc' = "dump_model"
              /\ UNCHANGED error
         ELSE /\ error' = TRUE
              /\ pc' = "halted"
              /\ UNCHANGED <<cache, model, preprocessor>>
    /\ UNCHANGED <<disk_model, disk_pre, wm_ok, form, button, input_data, input_df,
                   risk_score, gauge, shown, factors, load_failed, calls, ref,
                   others, trainvars>>

TrainOrGuess ==
    /\ pc = "train"
    /\ IF cache # NoPair \/ wm_ok
         THEN /\ cache' = TrainedPair
              /\ model' = TrainedPair.model
              /\ preprocessor' = TrainedPair.preprocessor
              /\ pc' = "dump_model"
              /\ UNCHANGED error
         ELSE /\ error' = TRUE
              /\ pc' = "widgets"
              /\ UNCHANGED <<cache, model, preprocessor>>
    /\ UNCHANGED <<disk_model, disk_pre, wm_ok, form, button, input_data, input_df,
                   risk_score, gauge, shown, factors, load_failed, calls, ref,
                   others, trainvars>>

\* except: model, preprocessor = load_and_train_model().  The function is
\* cached (st.cache_resource): it runs once per process and later calls get
\* the same pair; when it raises, nothing is cached and the run stops.
Train ==
    /\ pc = "train"
    /\ IF cache # NoPair \/ wm_ok
         THEN /\ cache' = TrainedPair
              /\ model' = TrainedPair.model
              /\ preprocessor' = TrainedPair.preprocessor
              /\ pc' = "dump_model"
              /\ UNCHANGED error
         ELSE /\ error' = TRUE
              /\ pc' = "halted"
              /\ UNCHANGED <<cache, model, preprocessor>>
    /\ UNCHANGED <<disk_model, disk_pre, wm_ok, form, button, input_data, input_df,
                   risk_score, gauge, shown, factors, load_failed, calls, ref,
                   others, trainvars>>

\* joblib.dump(model, 'best_model.joblib'): it may raise, leaving the file as
\* it was or truncated.
DumpModel ==
    /\ pc = "dump_model"
    /\ \E ok \in BOOLEAN :
         IF ok
           THEN /\ disk_model' = Dumped(model)
                /\ pc' = "dump_pre"
                /\ UNCHANGED error
           ELSE /\ disk_model' \in {disk_model, NoArtifact}
                /\ error' = TRUE
                /\ pc' = "halted"
    /\ UNCHANGED <<disk_pre, wm_ok, cache, model, preprocessor, form, button,
                   input_data, input_df, risk_score, gauge, shown, factors,
                   load_failed, calls, ref, others, trainvars>>

\* joblib.dump(preprocessor, 'preprocessor.joblib')
DumpPreprocessor ==
    /\ pc = "dump_pre"
    /\ \E ok \in BOOLEAN :
         IF ok
           THEN /\ disk_pre' = Dumped(preprocessor)
                /\ pc' = "widgets"
                /\ UNCHANGED error
           ELSE /\ disk_pre' \in {disk_pre, NoArtifact}
                /\ error' = TRUE
                /\ pc' = "halted"
    /\ UNCHANGED <<disk_model, wm_ok, cache, model, preprocessor, form, button,
                   input_data, input_df, risk_score, gauge, shown, factors,
                   load_failed, calls, ref, others, trainvars>>

\* The widgets are rendered and read; `if st.sidebar.button(...)`.
Widgets ==
    /\ pc = "widgets"
    /\ pc' = IF button THEN "handler" ELSE "done"
    /\ UNCHANGED <<disk_model, disk_pre, wm_ok, cache, model, preprocessor, form,
                   button, input_data, input_df, risk_score, gauge, shown, factors,
                   load_failed, calls, error, ref, others, trainvars>>

\* input_data = {...}
BuildInput ==
    /\ pc = "handler"
    /\ input_data' = InputData(form)
    /\ pc' = "score"
    /\ UNCHANGED <<disk_model, disk_pre, wm_ok, cache, model, preprocessor, form,
                   button, input_df, risk_score, gauge, shown, factors, load_failed,
                   calls, error, ref, others, trainvars>>

\* risk_score = predict_risk(input_data)
Score ==
    /\ pc = "score"
    /\ LET r == PredictRisk(model, preprocessor, input_data)
       IN  /\ risk_score' = r.score
           /\ input_df' = r.input_df
           /\ model' = r.model
           /\ preprocessor' = r.preprocessor
           /\ input_data' = r.input_dict
    /\ calls' = calls + 1
    /\ pc' = "render"
    /\ UNCHANGED <<disk_model, disk_pre, wm_ok, cache, form, button, gauge, shown,
                   factors, load_failed, error, ref, others, trainvars>>

\* The gauge, the risk interpretation and the key risk factors.  ref keeps
\* one rendered prediction for later comparison.
Render ==
    /\ pc = "render"
    /\ gauge' = risk_score * 100
    /\ shown' = Interpretation(risk_score)
    /\ factors' = KeyRiskFactors(input_data)
    /\ pc' = "done"
    /\ LET cur == Rendered(model, preprocessor, form, risk_score, shown', factors')
       IN  /\ ref' \in (IF ref = NoRef THEN {ref, cur} ELSE {ref})
           /\ others' = IF ref' = NoRef THEN FALSE
                        ELSE IF ref = NoRef THEN FALSE
                        ELSE others \/ form # ref.form
    /\ UNCHANGED <<disk_model, disk_pre, wm_ok, cache, model, preprocessor, form,
                   button, input_data, input_df, risk_score, load_failed, calls,
                   error, trainvars>>

\* The user changes the form; Streamlit reruns the script.
ChangeForm ==
    /\ pc = "done"
    /\ \E f \in Profiles \ {form} : StartRun(FALSE, f)
    /\ UNCHANGED <<disk_model, disk_pre, wm_ok, cache, ref, others, trainvars>>

\* The user presses "Predict Care Gap Risk"; Streamlit reruns the script.
ClickPredict ==
    /\ pc = "done"
    /\ StartRun(TRUE, form)
    /\ UNCHANGED <<disk_model, disk_pre, wm_ok, cache, ref, others, trainvars>>

\* The page is opened again: a new session with the widgets' defaults.
Reload ==
    /\ pc \in {"done", "halted"}
    /\ StartRun(FALSE, DefaultForm)
    /\ UNCHANGED <<disk_model, disk_pre, wm_ok, cache, ref, others, trainvars>>

\* Environment: an artifact file is deleted or corrupted.
RemoveArtifact ==
    /\ \/ /\ disk_model # NoArtifact
          /\ disk_model' = NoArtifact
          /\ UNCHANGED disk_pre
       \/ /\ disk_pre # NoArtifact
          /\ disk_pre' = NoArtifact
          /\ UNCHANGED disk_model
    /\ UNCHANGED <<wm_ok, cache, pc, model, preprocessor, form, button, input_data,
                   input_df, risk_score, gauge, shown, factors, load_failed, calls,
                   error, ref, others, trainvars>>

TrainIdle ==
    /\ t_pc = "idle"
    /\ columns = {}
    /\ df = <<>>
    /\ components = <<>>
    /\ X = {}
    /\ y = {}
    /\ fitted = "no"

\* The process starts: nothing cached, first run of a new session.
Init ==
    /\ disk_model \in {NoArtifact, ShippedFile}
    /\ disk_pre \in {NoArtifact, ShippedFile}
    /\ wm_ok \in BOOLEAN
    /\ cache = NoPair
    /\ pc = "load_model"
    /\ model = NoArtifact
    /\ preprocessor = NoArtifact
    /\ form = DefaultForm
    /\ button = FALSE
    /\ input_data = NoInput
    /\ input_df = NoFrame
    /\ risk_score = NoScore
    /\ gauge = NoScore
    /\ shown = <<>>
    /\ factors = <<>>
    /\ load_failed = "no"
    /\ calls = 0
    /\ error = FALSE
    /\ ref = NoRef
    /\ others = FALSE
    /\ TrainIdle

Next ==
    \/ LoadModel
    \/ LoadPreprocessor
    \/ Train
    \/ DumpModel
    \/ DumpPreprocessor
    \/ Widgets
    \/ BuildInput
    \/ Score
    \/ Render
    \/ ChangeForm
    \/ ClickPredict
    \/ Reload
    \/ RemoveArtifact

Spec == Init /\ [][Next]_vars

(***************************************************************************)
(* The handler and its parts as functions of their inputs                  *)
(***************************************************************************)
\* A run that has loaded or trained its artifacts and reached the handler.
AtHandler(stage) ==
    /\ disk_model = ShippedFile
    /\ disk_pre = ShippedFile
    /\ wm_ok = TRUE
    /\ \/ /\ cache = NoPair
          /\ model = Loaded(ShippedFile)
          /\ preprocessor = Loaded(ShippedFile)
          /\ load_failed = "no"
       \/ /\ cache = TrainedPair
          /\ model = TrainedPair.model
          /\ preprocessor = TrainedPair.preprocessor
          /\ load_failed = "model"
    /\ pc = stage
    /\ button = TRUE
    /\ gauge = NoScore
    /\ shown = <<>>
    /\ factors = <<>>
    /\ error = FALSE
    /\ ref = NoRef
    /\ others = FALSE
    /\ TrainIdle

\* Every selection the widgets allow, at the start of the handler.
InitForm ==
    /\ AtHandler("handler")
    /\ form \in Forms
    /\ input_data = NoInput
    /\ input_df = NoFrame
    /\ risk_score = NoScore
    /\ calls = 0

NextForm ==
    \/ BuildInput
    \/ Score
    \/ Render

SpecForm == InitForm /\ [][NextForm]_vars

\* predict_risk called with any dict, in or out of the form's domain.
InputDicts ==
    [age : {DefaultAge, MaxAge + 11}, parity : {DefaultParity, MaxParity + 5},
     late_initiator : YesNo \cup {"Maybe"},
     education : {0, 1, 3, 8, 5},
     insurance : YesNo \cup {"Unknown"},
     ever_birth : YesNo \cup {""},
     marital_status : {1, 2, 3, 9}]

\* The values the form and the mapping tables can produce.
InDomain(d) ==
    /\ d.age \in MinAge..MaxAge
    /\ d.parity \in MinParity..MaxParity
    /\ d.late_initiator \in YesNo
    /\ d.education \in Range(education_mapping)
    /\ d.insurance \in YesNo
    /\ d.ever_birth \in YesNo
    /\ d.marital_status \in Range(marital_mapping)

InitPredict ==
    /\ AtHandler("score")
    /\ form = DefaultForm
    /\ input_data \in InputDicts
    /\ input_df = NoFrame
    /\ risk_score = NoScore
    /\ calls = 0

NextPredict == Score

SpecPredict == InitPredict /\ [][NextPredict]_vars

\* Every probability in thousandths, 0.000 to 1.000.
Scores == 0..1000

\* The handler after predict_risk returned any score.
InitTier ==
    /\ AtHandler("render")
    /\ form \in Profiles
    /\ input_data = InputData(form)
    /\ input_df = EncodeFrame(input_data)
    /\ risk_score \in Scores
    /\ calls = 1

NextTier == Render

SpecTier == InitTier /\ [][NextTier]_vars

(***************************************************************************)
(* load_and_train_model: data preparation                                  *)
(***************************************************************************)
\* A missing cell (np.nan); every comparison with it is False.
NaN == -1
MaxRows == 2
LateWeeks == 13
WeeksPerMonth == 4345   \* 4.345, in thousandths of a week

IsNaN(v) == v = NaN
Equals(v, k) == ~IsNaN(v) /\ v = k
AtLeast(v, k) == ~IsNaN(v) /\ v >= k
Greater(v, k) == ~IsNaN(v) /\ v > k
Flag(b) == IF b THEN 1 ELSE 0

CareColumns == {"MN6A", "MN6B", "MN6C", "MN9", "MN8", "HA14"}
GestationColumns == {"MN4AN", "MN4AU"}

\* The component list create_care_gap_score builds for the columns present.
Components(cols) ==
    (IF "MN6A" \in cols THEN <<"bp_checked">> ELSE <<>>)
    \o (IF "MN6B" \in cols THEN <<"urine_tested">> ELSE <<>>)
    \o (IF "MN6C" \in cols THEN <<"blood_tested">> ELSE <<>>)
    \o (IF "MN9" \in cols THEN <<"tetanus_adequate">>
        ELSE IF "MN8" \in cols THEN <<"tetanus_any">> ELSE <<>>)
    \o (IF "HA14" \in cols THEN <<"hiv_tested">> ELSE <<>>)

\* The value of one component column for a row (np.where(cond, 1, 0)).
ComponentValue(row, c) ==
    CASE c = "bp_checked" -> Flag(Equals(row.MN6A, 1))
      [] c = "urine_tested" -> Flag(Equals(row.MN6B, 1))
      [] c = "blood_tested" -> Flag(Equals(row.MN6C, 1))
      [] c = "tetanus_adequate" -> Flag(AtLeast(row.MN9, 2))
      [] c = "tetanus_any" -> Flag(Equals(row.MN8, 1))
      [] c = "hiv_tested" -> Flag(Equals(row.HA14, 1))

RECURSIVE SumOver(_, _)
\* df[components].sum(axis=1) for one row.
SumOver(row, cs) ==
    IF cs = <<>> THEN 0 ELSE ComponentValue(row, Head(cs)) + SumOver(row, Tail(cs))

CareGapLabelAtMost(received, total) == Flag(received <= total - 1)

\* (received_components < (total_components - 1)).astype(int)
CareGapLabel(received, total) == Flag(received < total - 1)

\* gestational_age_weeks for one row, in thousandths of a week.
GestationalAgeWeeks(row) ==
    IF Equals(row.MN4AU, 1)
      THEN (IF IsNaN(row.MN4AN) THEN NaN ELSE row.MN4AN * 1000)
    ELSE IF Equals(row.MN4AU, 2)
      THEN (IF IsNaN(row.MN4AN) THEN NaN ELSE row.MN4AN * WeeksPerMonth)
    ELSE NaN

\* np.where(gestational_age_weeks > 13, 1, 0)
LateInitiatorValue(g) == Flag(Greater(g, LateWeeks * 1000))

\* A survey row: the raw cells plus the derived columns (NaN until created).
Row(a, b, c, n9, n8, h, an, au) ==
    [MN6A |-> a, MN6B |-> b, MN6C |-> c, MN9 |-> n9, MN8 |-> n8, HA14 |-> h,
     MN4AN |-> an, MN4AU |-> au,
     received_components |-> NaN, CareGapScore |-> NaN, LateInitiator |-> NaN]

\* The cells a column can hold; a column the file lacks holds nothing.
Cells(cols, c, values) == IF c \in cols THEN values ELSE {NaN}

\* One-row files with any subset of the care columns and any answers.
CareFiles(cols) ==
    {<<Row(a, b, c, n9, n8, h, 14, 1)>> :
        a \in Cells(cols, "MN6A", {1, 2, NaN}),
        b \in Cells(cols, "MN6B", {1, 2, NaN}),
        c \in Cells(cols, "MN6C", {1, 2, NaN}),
        n9 \in Cells(cols, "MN9", {0, 1, 2, 3, NaN}),
        n8 \in Cells(cols, "MN8", {1, 2, NaN}),
        h \in Cells(cols, "HA14", {1, 2, NaN})}

GestationRows(cols) ==
    {Row(a, 2, NaN, NaN, NaN, NaN, an, au) :
        a \in {1, 2},
        an \in Cells(cols, "MN4AN", {3, 13, 14, NaN}),
        au \in Cells(cols, "MN4AU", {1, 2, 9, NaN})}

\* Files of up to MaxRows rows with any timing answers.
GestationFiles(cols) ==
    UNION {[1..n -> GestationRows(cols)] : n \in 1..MaxRows}

InitTrainApp ==
    /\ disk_model = NoArtifact
    /\ disk_pre = NoArtifact
    /\ wm_ok = TRUE
    /\ cache = NoPair
    /\ pc = "train"
    /\ model = NoArtifact
    /\ preprocessor = NoArtifact
    /\ form = DefaultForm
    /\ button = FALSE
    /\ input_data = NoInput
    /\ input_df = NoFrame
    /\ risk_score = NoScore
    /\ gauge = NoScore
    /\ shown = <<>>
    /\ factors = <<>>
    /\ load_failed = "model"
    /\ calls = 0
    /\ error = FALSE
    /\ ref = NoRef
    /\ others = FALSE

\* df, meta = pyreadstat.read_sav("wm.sav")
InitTrain ==
    /\ InitTrainApp
    /\ t_pc = "care"
    /\ \/ /\ columns \in {cs \cup GestationColumns : cs \in SUBSET CareColumns}
          /\ df \in CareFiles(columns)
       \/ /\ columns \in {{"MN6A", "MN6B"} \cup gs : gs \in SUBSET GestationColumns}
          /\ df \in GestationFiles(columns)
    /\ components = <<>>
    /\ X = {}
    /\ y = {}
    /\ fitted = "no"

\* df, components_used = create_care_gap_score(df)
CreateCareGapScore ==
    /\ t_pc = "care"
    /\ components' = Components(columns)
    /\ df' = [i \in DOMAIN df |->
                LET received == SumOver(df[i], components')
                IN  [df[i] EXCEPT
                        !.received_components = received,
                        !.CareGapScore = CareGapLabel(received, Len(components'))]]
    /\ t_pc' = "late"
    /\ UNCHANGED <<columns, X, y, fitted, appvars>>

\* df = create_late_initiator(df)
CreateLateInitiator ==
    /\ t_pc = "late"
    /\ df' = [i \in DOMAIN df |->
                [df[i] EXCEPT
                    !.LateInitiator =
                        IF {"MN4AN", "MN4AU"} \subseteq columns
                          THEN LateInitiatorValue(GestationalAgeWeeks(df[i]))
                          ELSE NaN]]
    /\ t_pc' = "select"
    /\ UNCHANGED <<columns, components, X, y, fitted, appvars>>

\* X = df[all_features].copy(); y = df['CareGapScore'].copy()
SelectFeatures ==
    /\ t_pc = "select"
    /\ X' = DOMAIN df
    /\ y' = DOMAIN df
    /\ t_pc' = "target"
    /\ UNCHANGED <<columns, df, components, fitted, appvars>>

\* valid_indices = ~y.isna(); X = X[valid_indices]; y = y[valid_indices]
RemoveMissingTarget ==
    /\ t_pc = "target"
    /\ LET valid_indices == {i \in y : ~IsNaN(df[i].CareGapScore)}
       IN  /\ X' = X \cap valid_indices
           /\ y' = y \cap valid_indices
    /\ t_pc' = "late_rows"
    /\ UNCHANGED <<columns, df, components, fitted, appvars>>

\* valid_late_initiator = ~X['LateInitiator'].isna(); X = X[...]; y = y[...]
RemoveMissingLateInitiator ==
    /\ t_pc = "late_rows"
    /\ LET valid_late_initiator == {i \in X : ~IsNaN(df[i].LateInitiator)}
       IN  /\ X' = X \cap valid_late_initiator
           /\ y' = y \cap valid_late_initiator
    /\ t_pc' = "fit"
    /\ UNCHANGED <<columns, df, components, fitted, appvars>>

\* preprocessor.fit_transform(X); model.fit(X_processed, y): the library
\* raises on an empty X and on a y with fewer than two classes.
FitModel ==
    /\ t_pc = "fit"
    /\ fitted' = IF Cardinality({df[i].CareGapScore : i \in y}) >= 2
                   THEN "ok" ELSE "error"
    /\ t_pc' = "done"
    /\ UNCHANGED <<columns, df, components, X, y, appvars>>

NextTrain ==
    \/ CreateCareGapScore
    \/ CreateLateInitiator
    \/ SelectFeatures
    \/ RemoveMissingTarget
    \/ RemoveMissingLateInitiator
    \/ FitModel

SpecTrain == InitTrain /\ [][NextTrain]_vars

(***************************************************************************)
(* Properties                                                              *)
(***************************************************************************)

C2_TierByScore ==
    pc = "done" =>
        /\ Len(shown) = 1
        /\ shown[1] \in {HighBlock, MediumBlock, LowBlock}
        /\ shown[1].tier = "HIGH RISK" <=> 10 * risk_score > 7 * 1000
        /\ shown[1].tier = "MEDIUM RISK"
             <=> 10 * risk_score > 4 * 1000 /\ 10 * risk_score <= 7 * 1000
        /\ shown[1].tier = "LOW RISK" <=> 10 * risk_score <= 4 * 1000

C2_Witness ==
    /\ pc = "done"
    /\ risk_score = 400
    /\ shown = <<LowBlock>>

\* C3: for every valid form selection the record predict_risk hands to the
\* preprocessor carries age and parity unchanged, late initiator Yes=1 / No=0,
\* education None=0, Primary=1, Secondary=3, Higher=8, insurance Yes=1 / No=2,
\* ever given birth Yes=1 / No=2, marital status Married=1, Living with
\* partner=2, Not in union=3.
C3_RecordCodes ==
    pc \in {"render", "done"} =>
        /\ input_df.WB4 = form.age
        /\ input_df.CM11 = form.parity
        /\ input_df.LateInitiator =
             (CASE form.late_initiator = "Yes" -> 1 [] form.late_initiator = "No" -> 0)
        /\ input_df.WB6A =
             (CASE form.education = "No formal education" -> 0
                [] form.education = "Primary" -> 1
                [] form.education = "Secondary" -> 3
                [] form.education = "Higher" -> 8)
        /\ input_df.WB18 =
             (CASE form.insurance = "Yes" -> 1 [] form.insurance = "No" -> 2)
        /\ input_df.CM1 =
             (CASE form.ever_birth = "Yes" -> 1 [] form.ever_birth = "No" -> 2)
        /\ input_df.MA1 =
             (CASE form.marital_status = "Married" -> 1
                [] form.marital_status = "Living with partner" -> 2
                [] form.marital_status = "Not in union" -> 3)

C3_Witness ==
    /\ pc = "render"
    /\ form.education = "Secondary"
    /\ form.insurance = "No"
    /\ form.marital_status = "Not in union"
    /\ input_df.WB6A = 3
    /\ input_df.WB18 = 2
    /\ input_df.MA1 = 3

\* C4: when predict_risk receives an out-of-domain value for any field, the
\* call reports an error and returns no probability.
C4_FailsClosed ==
    pc = "render" /\ ~InDomain(input_data) => error /\ risk_score = NoScore

\* C5 as stated: for age 17, parity 5, late initiator Yes, no formal
\* education, no insurance, not in union, the factor list contains the six
\* factors, "Young maternal age" among them.
C5_SixFactors ==
    /\ pc = "done"
    /\ form.age = 17
    /\ form.parity = 5
    /\ form.late_initiator = "Yes"
    /\ form.education = "No formal education"
    /\ form.insurance = "No"
    /\ form.marital_status = "Not in union"
    => {LateFactor, EducationFactor, InsuranceFactor, "High parity (5 births)",
        UnionFactor, "Young maternal age"} \subseteq Range(factors)

\* C5 amended: for that input the factor list is exactly, in this order, Late
\* ANC initiation, Lower education level, No health insurance, High parity
\* (5 births), Not in a union; no entry is derived from the age.
C5_FiveFactors ==
    /\ pc = "done"
    /\ form.age = 17
    /\ form.parity = 5
    /\ form.late_initiator = "Yes"
    /\ form.education = "No formal education"
    /\ form.insurance = "No"
    /\ form.marital_status = "Not in union"
    => factors = <<"Late ANC initiation (first visit after 13 weeks)",
                   "Lower education level", "No health insurance",
                   "High parity (5 births)", "Not in a union">>

C5_Witness ==
    /\ pc = "done"
    /\ form = [TeenForm EXCEPT !.ever_birth = "Yes"]
    /\ Len(factors) = 5

C7_SideEffectFree ==
    /\ [](/\ calls <= 1
          /\ pc = "render" => calls = 1
          /\ pc = "done" => calls = (IF button THEN 1 ELSE 0))
    /\ [][/\ pc \in {"widgets", "handler", "score", "render"}
             => /\ model' = model
                /\ preprocessor' = preprocessor
                /\ cache' = cache
          /\ pc \in {"score", "render"} => input_data' = input_data]_vars

C7_Witness ==
    /\ pc = "done"
    /\ button
    /\ calls = 1
    /\ input_data = InputData(form)
    /\ model = Loaded(ShippedFile)

\* C8: a row whose gestational-age unit is neither 1 nor 2 gets a missing
\* LateInitiator and is not among the rows that reach fitting.
C8_OtherUnitsDropped ==
    /\ t_pc \notin {"care", "late"}
         => \A i \in DOMAIN df :
              df[i].MN4AU \notin {1, 2} => IsNaN(df[i].LateInitiator)
    /\ t_pc \in {"fit", "done"}
         => \A i \in X : df[i].MN4AU \in {1, 2}

\* The care components the file tracks, the tetanus columns counting once.
C9_Tracked(cols) ==
    {c \in {"MN6A", "MN6B", "MN6C", "HA14"} : c \in cols}
    \cup (IF "MN9" \in cols \/ "MN8" \in cols THEN {"tetanus"} ELSE {})

\* Whether a row received a tracked component.
C9_Received(row, cols, c) ==
    CASE c = "MN6A" -> row.MN6A = 1
      [] c = "MN6B" -> row.MN6B = 1
      [] c = "MN6C" -> row.MN6C = 1
      [] c = "HA14" -> row.HA14 = 1
      [] c = "tetanus" -> IF "MN9" \in cols THEN row.MN9 >= 2 ELSE row.MN8 = 1

\* C9: for every row and every set of available component columns, with at
\* most one tetanus component counted, CareGapScore is 1 exactly when the row
\* misses two or more of the tracked components, and 0 otherwise.
C9_CareGapLabel ==
    t_pc # "care" =>
        /\ Len(components) = Cardinality(C9_Tracked(columns))
        /\ \A i \in DOMAIN df :
             LET missed == {c \in C9_Tracked(columns) :
                              ~C9_Received(df[i], columns, c)}
             IN  /\ df[i].CareGapScore \in {0, 1}
                 /\ df[i].CareGapScore = 1 <=> Cardinality(missed) >= 2
                 /\ df[i].received_components
                      = Cardinality(C9_Tracked(columns)) - Cardinality(missed)

C9_Witness ==
    /\ t_pc = "done"
    /\ {"MN9", "MN8"} \subseteq columns
    /\ Len(components) = 5
    /\ \E i \in DOMAIN df :
         /\ df[i].received_components = 3
         /\ df[i].CareGapScore = 1

\* C10: whenever a prediction is scored or shown, model and preprocessor have
\* the same origin: both were loaded from disk, or both are the pair one
\* load_and_train_model call returned.
C10_MatchedPair ==
    pc \in {"score", "render"} \/ risk_score # NoScore =>
        /\ model.from = preprocessor.from
        /\ model.from \in {"disk", "trained"}
        /\ model.from = "trained"
             => [model |-> model, preprocessor |-> preprocessor] = cache

C10_Witness ==
    /\ pc = "render"
    /\ load_failed = "preprocessor"
    /\ model.from = "trained"
    /\ preprocessor.from = "trained"

====
